---- MODULE Spec2Model ----
(***************************************************************************)
(* A model of rdm/tex.py: the conversion of a Markdown document with YAML  *)
(* front matter into a LaTeX document (yaml_gfm_to_tex) and its patch      *)
(* passes (add_margins, add_title_and_toc, add_header_and_footer,          *)
(* handle_images).                                                         *)
(*                                                                         *)
(* Texts that the code handles character by character (the raw input of    *)
(* _extract_yaml_front_matter) are sequences of one-character strings.     *)
(* A LaTeX line is a sequence of tokens: the fixed lines are one token,    *)
(* the lines built by string concatenation are the concatenation of their  *)
(* pieces, and a path is the sequence of its names, "/" and ".".           *)
(***************************************************************************)
EXTENDS Integers, Sequences, FiniteSets, TLC

VARIABLES
    pc,                  \* position in yaml_gfm_to_tex, or "failed" once an exception propagates
    err,                 \* the exception that propagated, "none" if none
    raw_string,          \* input_text (tex.py:20)
    template_string,     \* markdown (tex.py:21)
    front_matter_string, \* the text handed to yaml.load (tex.py:37)
    front_matter,        \* front_matter (tex.py:21)
    tex_lines,           \* tex_lines (tex.py:23), mutated in place by the passes
    tex_in,              \* history: the line sequence the first pass was given
    prev,                \* history: the line sequence the last pass was given
    ran,                 \* history: the passes called so far, in order
    fs,                  \* the file system under the working directory
    log,                 \* the diagnostics printed by print_error
    staged,              \* the calls made to svg_to_pdf and shutil.copyfile
    converter_invoked,   \* whether the pandoc subprocess was run
    output,              \* what was written to output_file
    runs                 \* history: the result of each handle_images call

vars == <<pc, err, raw_string, template_string, front_matter_string, front_matter,
          tex_lines, tex_in, prev, ran, fs, log, staged, converter_invoked,
          output, runs>>

(***************************************************************************)
(* Bounds of the model.                                                    *)
(***************************************************************************)
MaxInputLines == 3
MaxDocLen == 4
MaxImgDocLen == 2
MaxRuns == 2

SeqsUpTo(S, n) == UNION {[1..k -> S] : k \in 0..n}

Last(s) == s[Len(s)]

Min(S) == CHOOSE x \in S : \A y \in S : x <= y

(***************************************************************************)
(* Python's str and list primitives.                                       *)
(***************************************************************************)
StartsWith(s, p) == Len(s) >= Len(p) /\ SubSeq(s, 1, Len(p)) = p

EndsWith(s, p) == Len(s) >= Len(p) /\ SubSeq(s, Len(s) - Len(p) + 1, Len(s)) = p

\* str.split(sep): the pieces between the non-overlapping occurrences of sep,
\* found left to right.
RECURSIVE SplitAcc(_, _, _)
SplitAcc(s, sep, cur) ==
    IF s = <<>> THEN <<cur>>
    ELSE IF StartsWith(s, sep)
         THEN <<cur>> \o SplitAcc(SubSeq(s, Len(sep) + 1, Len(s)), sep, <<>>)
         ELSE SplitAcc(Tail(s), sep, Append(cur, Head(s)))

StrSplit(s, sep) == SplitAcc(s, sep, <<>>)

\* sep.join(parts)
RECURSIVE StrJoin(_, _)
StrJoin(sep, parts) ==
    IF parts = <<>> THEN <<>>
    ELSE IF Len(parts) = 1 THEN parts[1]
         ELSE parts[1] \o sep \o StrJoin(sep, Tail(parts))

\* list.index(x): the 0-based index of the first element equal to x; -1 stands
\* for the ValueError raised when there is none.
ListIndex(l, x) ==
    IF \E i \in 1..Len(l) : l[i] = x
    THEN Min({i \in 1..Len(l) : l[i] = x}) - 1
    ELSE -1

\* list.insert(index, x), index 0-based; an index past the end appends.
ListInsert(l, index, x) ==
    LET i == IF index > Len(l) THEN Len(l) ELSE index
    IN SubSeq(l, 1, i) \o <<x>> \o SubSeq(l, i + 1, Len(l))

(***************************************************************************)
(* _extract_yaml_front_matter                                              *)
(***************************************************************************)
Delimiter == <<"-", "-", "-", "\n">>

\* A front-matter value as yaml.load returns it: a string (its text in s), an
\* integer (in n), or no entry for the key.
StrVal(s) == [t |-> "str", s |-> s, n |-> 0]
IntVal(n) == [t |-> "int", s |-> <<>>, n |-> n]
Absent == [t |-> "absent", s |-> <<>>, n |-> 0]

Keys == {"title", "id", "revision", "manufacturer_name"}

FullFrontMatter ==
    [title |-> StrVal(<<"Spec">>), id |-> StrVal(<<"DOC-1">>),
     revision |-> IntVal(2), manufacturer_name |-> StrVal(<<"Acme">>)]

NoFrontMatter == [k \in Keys |-> Absent]

\* The mappings yaml.load may return: every required key present (revision an
\* integer or a string), one key missing, a title that is not a string, nothing.
FrontMatters ==
    {FullFrontMatter, [FullFrontMatter EXCEPT !.revision = StrVal(<<"B">>)],
     [FullFrontMatter EXCEPT !.title = IntVal(7)], NoFrontMatter}
    \cup {[FullFrontMatter EXCEPT ![k] = Absent] : k \in Keys}

\* The outcomes of yaml.load on a text: a mapping, or a YAMLError.
YamlResults ==
    {[ok |-> TRUE, value |-> m] : m \in FrontMatters}
    \cup {[ok |-> FALSE, value |-> NoFrontMatter]}

\* _extract_yaml_front_matter that accepts a single delimiter
ExtractYamlFrontMatterLax(raw, yaml) ==
    LET parts == StrSplit(raw, Delimiter)
    IN IF Len(parts) < 2
       THEN [err |-> "ValueError", template_string |-> <<>>,
             front_matter_string |-> <<>>, front_matter |-> NoFrontMatter]
       ELSE IF ~yaml.ok
            THEN [err |-> "ValueError", template_string |-> <<>>,
                  front_matter_string |-> parts[2], front_matter |-> NoFrontMatter]
            ELSE [err |-> "none",
                  template_string |-> StrJoin(Delimiter, SubSeq(parts, 3, Len(parts))),
                  front_matter_string |-> parts[2],
                  front_matter |-> yaml.value]

ExtractYamlFrontMatter(raw, yaml) ==
    LET parts == StrSplit(raw, Delimiter)
    IN IF Len(parts) < 3
       THEN [err |-> "ValueError", template_string |-> <<>>,
             front_matter_string |-> <<>>, front_matter |-> NoFrontMatter]
       ELSE IF ~yaml.ok
            THEN [err |-> "ValueError", template_string |-> <<>>,
                  front_matter_string |-> parts[2], front_matter |-> NoFrontMatter]
            ELSE [err |-> "none",
                  template_string |-> StrJoin(Delimiter, SubSeq(parts, 3, Len(parts))),
                  front_matter_string |-> parts[2],
                  front_matter |-> yaml.value]

(***************************************************************************)
(* The lines the patch passes look for and insert.                         *)
(***************************************************************************)
BeginDocument == <<"\\begin{document}">>
DocumentClassOneLine == <<"\\documentclass[]{article}">>
DocumentClassOpen == <<"\\documentclass[">>
DocumentClassClose == <<"]{article}">>
GeometryLine == <<"\\usepackage[margin=1.25in]{geometry}">>
OtherLine == <<"\\section{Hello}">>

\* str(v)
PyStr(v) == IF v.t = "int" THEN <<ToString(v.n)>> ELSE v.s

\* The exception of '...' + front_matter[k]: KeyError for a missing key,
\* TypeError for a value that is not a string.
ConcatErr(fm, k) ==
    IF fm[k].t = "absent" THEN "KeyError"
    ELSE IF fm[k].t # "str" THEN "TypeError" ELSE "none"

\* The exception of str(front_matter[k])
LookupErr(fm, k) == IF fm[k].t = "absent" THEN "KeyError" ELSE "none"

\* The first exception of a sequence of evaluations
FirstErr(errs) ==
    IF \E i \in 1..Len(errs) : errs[i] # "none"
    THEN errs[Min({i \in 1..Len(errs) : errs[i] # "none"})]
    ELSE "none"

\* _insert_liness in a wrong order: the lines inserted first to last
RECURSIVE InsertLinesForward(_, _, _)
InsertLinesForward(existing, index, new_lines) ==
    IF new_lines = <<>> THEN existing
    ELSE InsertLinesForward(ListInsert(existing, index, Head(new_lines)),
                            index, Tail(new_lines))

RECURSIVE InsertLines(_, _, _)
InsertLines(existing, index, new_lines) ==
    IF new_lines = <<>> THEN existing
    ELSE InsertLines(ListInsert(existing, index, Last(new_lines)),
                     index, SubSeq(new_lines, 1, Len(new_lines) - 1))

TitleAfterBlock ==
    << <<"\\maketitle">>, <<"\\thispagestyle{empty}">>,
       <<"\\tableofcontents">>, <<"\\pagebreak">> >>

TitleBeforeBlock(fm) ==
    << <<"\\title{">> \o fm.title.s \o <<" \\\\ ">>,
       <<"\\large ">> \o fm.id.s \o <<", Rev. ">> \o PyStr(fm.revision) \o <<"}">>,
       <<"\\date{\\today}">>,
       <<"\\author{">> \o fm.manufacturer_name.s \o <<"}">> >>

TitleBeforeErr(fm) ==
    FirstErr(<<ConcatErr(fm, "title"), ConcatErr(fm, "id"),
               LookupErr(fm, "revision"), ConcatErr(fm, "manufacturer_name")>>)

HeaderAfterBlock == << <<"\\thispagestyle{empty}">> >>

HeaderBeforeBlock(fm) ==
    << <<"\\usepackage{fancyhdr}">>, <<"\\usepackage{lastpage}">>,
       <<"\\pagestyle{fancy}">>,
       <<"\\lhead{">> \o fm.title.s \o <<"}">>,
       <<"\\rhead{">> \o fm.id.s \o <<", Rev. ">> \o PyStr(fm.revision) \o <<"}">>,
       <<"\\cfoot{Page \\thepage\\ of \\pageref{LastPage}}">> >>

HeaderBeforeErr(fm) ==
    FirstErr(<<ConcatErr(fm, "title"), ConcatErr(fm, "id"), LookupErr(fm, "revision")>>)

\* A pass's result: the line sequence as the pass left it and the exception it
\* raised, "none" if it returned.
Result(lines, e) == [lines |-> lines, err |-> e]

\* The two insertions of add_title_and_toc and add_header_and_footer: the block
\* after the anchor first, then the front-matter block, whose construction may
\* raise, before the anchor.
InsertAroundAnchor(lines, after, before, before_err) ==
    LET begin_document_index == ListIndex(lines, BeginDocument)
    IN IF begin_document_index < 0 THEN Result(lines, "ValueError")
       ELSE LET inserted == InsertLines(lines, begin_document_index + 1, after)
            IN IF before_err # "none" THEN Result(inserted, before_err)
               ELSE Result(InsertLines(inserted, begin_document_index, before), "none")

add_title_and_toc(lines, fm) ==
    InsertAroundAnchor(lines, TitleAfterBlock, TitleBeforeBlock(fm), TitleBeforeErr(fm))

\* add_header_and_footer that inserts its after-block before the anchor too
add_header_and_footer_before_only(lines, fm) ==
    InsertAroundAnchor(lines, <<>>, HeaderAfterBlock \o HeaderBeforeBlock(fm),
                       HeaderBeforeErr(fm))

add_header_and_footer(lines, fm) ==
    InsertAroundAnchor(lines, HeaderAfterBlock, HeaderBeforeBlock(fm), HeaderBeforeErr(fm))

\* add_margins that assigns the directive to the line after the declaration
\* instead of inserting it
add_margins_assign(lines) ==
    LET one == ListIndex(lines, DocumentClassOneLine)
        open == ListIndex(lines, DocumentClassOpen)
    IN IF one >= 0
       THEN IF one + 2 > Len(lines) THEN Result(lines, "IndexError")
            ELSE Result([lines EXCEPT ![one + 2] = GeometryLine], "none")
       ELSE IF open < 0 THEN Result(lines, "ValueError")
       ELSE IF open + 2 > Len(lines) THEN Result(lines, "IndexError")
       ELSE IF lines[open + 2] # DocumentClassClose THEN Result(lines, "ValueError")
       ELSE IF open + 3 > Len(lines) THEN Result(lines, "IndexError")
       ELSE Result([lines EXCEPT ![open + 3] = GeometryLine], "none")

\* add_margins that does not step over the second line of the two-line form
add_margins_no_step(lines) ==
    LET one == ListIndex(lines, DocumentClassOneLine)
        open == ListIndex(lines, DocumentClassOpen)
    IN IF one >= 0 THEN Result(ListInsert(lines, one + 1, GeometryLine), "none")
       ELSE IF open < 0 THEN Result(lines, "ValueError")
       ELSE IF open + 2 > Len(lines) THEN Result(lines, "IndexError")
       ELSE IF lines[open + 2] = DocumentClassClose
            THEN Result(ListInsert(lines, open + 1, GeometryLine), "none")
            ELSE Result(lines, "ValueError")

add_margins(lines) ==
    LET one == ListIndex(lines, DocumentClassOneLine)
        open == ListIndex(lines, DocumentClassOpen)
    IN IF one >= 0 THEN Result(ListInsert(lines, one + 1, GeometryLine), "none")
       ELSE IF open < 0 THEN Result(lines, "ValueError")
       ELSE IF open + 2 > Len(lines) THEN Result(lines, "IndexError")
       ELSE IF lines[open + 2] = DocumentClassClose
            THEN Result(ListInsert(lines, open + 2, GeometryLine), "none")
            ELSE Result(lines, "ValueError")

(***************************************************************************)
(* Paths and the file system.                                              *)
(***************************************************************************)
\* The index of the last "/" of a path, 0 if it has none
LastSlash(p) ==
    IF \E i \in 1..Len(p) : p[i] = "/"
    THEN CHOOSE i \in 1..Len(p) : p[i] = "/" /\ \A j \in (i + 1)..Len(p) : p[j] # "/"
    ELSE 0

RECURSIVE RStripSlashes(_)
RStripSlashes(p) ==
    IF p # <<>> /\ Last(p) = "/" THEN RStripSlashes(SubSeq(p, 1, Len(p) - 1)) ELSE p

\* os.path.split(p): <<head, tail>>
PathSplit(p) ==
    LET i == LastSlash(p)
        head == SubSeq(p, 1, i)
        tail == SubSeq(p, i + 1, Len(p))
    IN IF head # <<>> /\ \E j \in 1..Len(head) : head[j] # "/"
       THEN <<RStripSlashes(head), tail>>
       ELSE <<head, tail>>

\* os.path.splitext(p) of a file name: <<root, ext>>; the extension starts at
\* the last dot, unless only dots precede it.
PathSplitExt(p) ==
    LET dots == {i \in 1..Len(p) : p[i] = "."}
        dotIndex == IF dots = {} THEN 0 ELSE CHOOSE i \in dots : \A j \in dots : j <= i
    IN IF dotIndex > 0 /\ \E j \in 1..(dotIndex - 1) : p[j] # "."
       THEN <<SubSeq(p, 1, dotIndex - 1), SubSeq(p, dotIndex, Len(p))>>
       ELSE <<p, <<>> >>

\* os.path.join(a, b)
PathJoin(a, b) ==
    IF b # <<>> /\ Head(b) = "/" THEN b
    ELSE IF a = <<>> \/ Last(a) = "/" THEN a \o b
         ELSE a \o <<"/">> \o b

TmpRoot == <<".", "/", "tmp", "/">>

\* The file a relative path names: the path without a leading "./" and
\* without trailing slashes.
RECURSIVE FileKey(_)
FileKey(p) ==
    IF StartsWith(p, <<".", "/">>) THEN FileKey(SubSeq(p, 3, Len(p)))
    ELSE RStripSlashes(p)

\* The directories os.makedirs(d) makes sure exist: d and its ancestors
DirsOf(d) ==
    LET k == FileKey(d)
    IN {SubSeq(k, 1, j) : j \in {i \in 1..Len(k) :
                                   k[i] # "/" /\ (i = Len(k) \/ k[i + 1] = "/")}}

\* os.path.isfile(p)
IsFile(f, p) == FileKey(p) \in DOMAIN f.files

WriteFile(f, p, content) ==
    [f EXCEPT !.files = [q \in DOMAIN f.files \cup {FileKey(p)} |->
                            IF q = FileKey(p) THEN content ELSE f.files[q]]]

\* os.makedirs(d) without exist_ok: FileExistsError when d is there already
MakeDirsStrict(f, d) ==
    IF FileKey(d) \in f.dirs THEN [fs |-> f, err |-> "FileExistsError"]
    ELSE [fs |-> [f EXCEPT !.dirs = f.dirs \cup DirsOf(d)], err |-> "none"]

\* os.makedirs(d, exist_ok=True)
MakeDirs(f, d) == [fs |-> [f EXCEPT !.dirs = f.dirs \cup DirsOf(d)], err |-> "none"]

\* The bytes of a source image and of the PDF the rasterizer makes of it
SourceBytes(p) == <<"bytes of">> \o p
PdfOf(content) == <<"pdf of">> \o content

\* shutil.copyfile(src, dst)
CopyFile(f, src, dst) ==
    IF ~IsFile(f, src) THEN [fs |-> f, err |-> "FileNotFoundError"]
    ELSE [fs |-> WriteFile(f, dst, f.files[FileKey(src)]), err |-> "none"]

\* svg_to_pdf(svg_filename, pdf_filename): the rasterizer cannot read a file
\* that is not there
SvgToPdf(f, src, dst) ==
    IF ~IsFile(f, src) THEN [fs |-> f, err |-> "RasterizerError"]
    ELSE [fs |-> WriteFile(f, dst, PdfOf(f.files[FileKey(src)])), err |-> "none"]

(***************************************************************************)
(* handle_images                                                           *)
(***************************************************************************)
IncludeGraphics == "\\includegraphics{"
IncludeGraphicsWidth == "\\includegraphics[width=0.95\\textwidth]{"

\* img_pattern: ^\\includegraphics{\.\./(?P<path>.*)}$
ImgMatch(line) ==
    /\ Len(line) >= 5
    /\ SubSeq(line, 1, 4) = <<IncludeGraphics, ".", ".", "/">>
    /\ Last(line) = "}"

\* The group 'path' of a line that matches img_pattern
ImgPath(line) == SubSeq(line, 5, Len(line) - 1)

\* svg_pattern: ^\\includegraphics{\.\./(?P<path>.*\.svg)}$
SvgMatch(line) == ImgMatch(line) /\ EndsWith(ImgPath(line), <<".", "svg">>)

ImageLine(path) == <<IncludeGraphics, ".", ".", "/">> \o path \o <<"}">>

RewrittenLine(output_path) == <<IncludeGraphicsWidth>> \o output_path \o <<"}">>

\* One iteration of the loop of handle_images, on the state st of the call:
\* the lines, the file system, the diagnostics, the staging calls, the exception.
HandleImageLine(st, index) ==
    LET line == st.lines[index]
        input_path == ImgPath(line)
        log1 == IF IsFile(st.fs, input_path) THEN st.log
                ELSE Append(st.log, <<"Image does not exist: ">> \o input_path)
        input_directory == PathSplit(input_path)[1]
        input_filename_w_ext == PathSplit(input_path)[2]
        output_directory == PathJoin(TmpRoot, input_directory)
        made == MakeDirs(st.fs, output_directory)
        is_svg == SvgMatch(line)
        input_filename == PathSplitExt(input_filename_w_ext)[1]
        output_path == IF is_svg
                       THEN PathJoin(output_directory, input_filename \o <<".", "pdf">>)
                       ELSE PathJoin(output_directory, input_filename_w_ext)
        done == IF is_svg THEN SvgToPdf(made.fs, input_path, output_path)
                ELSE CopyFile(made.fs, input_path, output_path)
        call == [op |-> IF is_svg THEN "svg_to_pdf" ELSE "copyfile",
                 src |-> input_path, dst |-> output_path]
    IN IF ~ImgMatch(line) THEN st
       ELSE IF made.err # "none"
            THEN [st EXCEPT !.log = log1, !.err = made.err]
       ELSE IF done.err # "none"
            THEN [st EXCEPT !.log = log1, !.fs = made.fs, !.err = done.err,
                            !.staged = Append(st.staged, call)]
       ELSE [st EXCEPT !.log = log1, !.fs = done.fs,
                       !.staged = Append(st.staged, call),
                       !.lines = [st.lines EXCEPT ![index] = RewrittenLine(output_path)]]

RECURSIVE HandleImagesFrom(_, _)
HandleImagesFrom(st, index) ==
    IF index > Len(st.lines) THEN st
    ELSE LET next == HandleImageLine(st, index)
         IN IF next.err # "none" THEN next ELSE HandleImagesFrom(next, index + 1)

handle_images(lines, f) ==
    HandleImagesFrom([lines |-> lines, fs |-> f, log |-> <<>>, staged |-> <<>>,
                      err |-> "none"], 1)

(***************************************************************************)
(* The inputs of the model.                                                *)
(***************************************************************************)
\* Raw input texts: up to MaxInputLines lines, each ended by a newline, and
\* possibly a last line without one.
InputLines == {<<"-", "-", "-">>, <<"a">>, <<"a", "-", "-", "-">>, <<"-", "-", "-", "-">>}

InputFragments == {<<>>, <<"a">>, <<"-", "-", "-">>}

RECURSIVE TextOf(_)
TextOf(ls) == IF ls = <<>> THEN <<>> ELSE Head(ls) \o <<"\n">> \o TextOf(Tail(ls))

Inputs == {TextOf(ls) \o f : ls \in SeqsUpTo(InputLines, MaxInputLines), f \in InputFragments}

\* Line sequences given to the patch passes
PatchLines ==
    {DocumentClassOneLine, DocumentClassOpen, DocumentClassClose, BeginDocument, OtherLine}

Docs == SeqsUpTo(PatchLines, MaxDocLen)

\* Source images: in the working directory, in a subdirectory, in a
\* subdirectory of it, and in ./tmp itself
SourceDirs == {<<>>, <<"img">>, <<"img", "/", "sub">>, <<"tmp">>}

SourceNames == {<<"a", ".", "svg">>, <<"a", ".", "png">>, <<"b", ".", "a", ".", "svg">>}

SourcePaths == {PathJoin(d, n) : d \in SourceDirs, n \in SourceNames}

\* The file system with the source images of `existing` in it
SourceFs(existing) ==
    [files |-> [p \in existing |-> SourceBytes(p)],
     dirs |-> UNION {DirsOf(PathSplit(p)[1]) : p \in existing}]

\* Line sequences given to handle_images: image lines, a line that includes an
\* image not rooted at "../", any other line
ImgLines ==
    {ImageLine(p) : p \in SourcePaths}
    \cup {<<IncludeGraphics, "a", ".", "png", "}">>, OtherLine}

ImgDocs == SeqsUpTo(ImgLines, MaxImgDocLen)

Referenced(lines) == {ImgPath(lines[i]) : i \in {j \in 1..Len(lines) : ImgMatch(lines[j])}}

\* What the converter may print: the two shapes of the document class, a
\* document with images, and outputs that lack an anchor
PandocOutputs ==
    { <<DocumentClassOneLine, BeginDocument, OtherLine>>,
      <<DocumentClassOpen, DocumentClassClose, BeginDocument, OtherLine>>,
      <<DocumentClassOneLine, BeginDocument,
        ImageLine(<<"img", "/", "a", ".", "svg">>), ImageLine(<<"a", ".", "png">>)>>,
      <<DocumentClassOneLine, BeginDocument, ImageLine(<<"img", "/", "a", ".", "png">>)>>,
      <<DocumentClassOneLine, OtherLine>>,
      <<OtherLine, BeginDocument>> }

NoOutput == [written |-> FALSE, lines |-> <<>>]

(***************************************************************************)
(* yaml_gfm_to_tex, one action per call it makes.                          *)
(***************************************************************************)
Idle ==
    /\ err = "none"
    /\ template_string = <<>>
    /\ front_matter_string = <<>>
    /\ ran = <<>>
    /\ log = <<>>
    /\ staged = <<>>
    /\ converter_invoked = FALSE
    /\ output = NoOutput
    /\ runs = <<>>

\* yaml_gfm_to_tex is called on an input file; img/a.png is not on disk
Init ==
    /\ Idle
    /\ pc = "extract"
    /\ raw_string \in Inputs
    /\ front_matter = NoFrontMatter
    /\ tex_lines = <<>>
    /\ tex_in = <<>>
    /\ prev = <<>>
    /\ fs = SourceFs(SourcePaths \ {<<"img", "/", "a", ".", "png">>})

\* The patch passes are called on a line sequence, from any pass on
InitPatch ==
    /\ Idle
    /\ pc \in {"margins", "title", "header"}
    /\ raw_string = <<>>
    /\ front_matter \in FrontMatters
    /\ tex_lines \in Docs
    /\ tex_in = tex_lines
    /\ prev = tex_lines
    /\ fs = SourceFs(SourcePaths)

\* handle_images is called on a line sequence; any of the images it refers to
\* may be missing
InitImages ==
    /\ Idle
    /\ pc = "images"
    /\ raw_string = <<>>
    /\ front_matter = FullFrontMatter
    /\ tex_lines \in ImgDocs
    /\ tex_in = tex_lines
    /\ prev = tex_lines
    /\ \E missing \in SUBSET Referenced(tex_lines) : fs = SourceFs(SourcePaths \ missing)

\* tex.py:21
Extract ==
    /\ pc = "extract"
    /\ \E yaml \in YamlResults :
         LET r == ExtractYamlFrontMatter(raw_string, yaml)
         IN /\ err' = r.err
            /\ template_string' = r.template_string
            /\ front_matter_string' = r.front_matter_string
            /\ front_matter' = r.front_matter
            /\ pc' = IF r.err = "none" THEN "pandoc" ELSE "failed"
    /\ UNCHANGED <<raw_string, tex_lines, tex_in, prev, ran, fs, log, staged,
                   converter_invoked, output, runs>>

\* tex.py:22-23: _convert_with_pandoc returns the converter's output, or
\* raises when the converter exits with a non-zero status
Pandoc ==
    /\ pc = "pandoc"
    /\ converter_invoked' = TRUE
    /\ \/ /\ \E tex \in PandocOutputs :
               /\ tex_lines' = tex
               /\ tex_in' = tex
               /\ prev' = tex
          /\ pc' = "margins"
          /\ err' = "none"
       \/ /\ pc' = "failed"
          /\ err' = "ValueError"
          /\ UNCHANGED <<tex_lines, tex_in, prev>>
    /\ UNCHANGED <<raw_string, template_string, front_matter_string, front_matter,
                   ran, fs, log, staged, output, runs>>

\* A pass that leaves result r, followed by the call at next_pc unless it raised
Pass(name, r, next_pc) ==
    /\ tex_lines' = r.lines
    /\ prev' = tex_lines
    /\ ran' = Append(ran, name)
    /\ err' = r.err
    /\ pc' = IF r.err = "none" THEN next_pc ELSE "failed"

\* tex.py:25
AddMargins ==
    /\ pc = "margins"
    /\ Pass("margins", add_margins(tex_lines), "title")
    /\ UNCHANGED <<raw_string, template_string, front_matter_string, front_matter,
                   tex_in, fs, log, staged, converter_invoked, output, runs>>

\* tex.py:26
AddTitleAndToc ==
    /\ pc = "title"
    /\ Pass("title", add_title_and_toc(tex_lines, front_matter), "header")
    /\ UNCHANGED <<raw_string, template_string, front_matter_string, front_matter,
                   tex_in, fs, log, staged, converter_invoked, output, runs>>

\* tex.py:27
AddHeaderAndFooter ==
    /\ pc = "header"
    /\ Pass("header", add_header_and_footer(tex_lines, front_matter), "images")
    /\ UNCHANGED <<raw_string, template_string, front_matter_string, front_matter,
                   tex_in, fs, log, staged, converter_invoked, output, runs>>

\* A call of handle_images on the line sequence `given`
ImagesCall(given) ==
    LET r == handle_images(given, fs)
    IN /\ Pass("images", [lines |-> r.lines, err |-> r.err], "write")
       /\ fs' = r.fs
       /\ log' = log \o r.log
       /\ staged' = staged \o r.staged
       /\ runs' = Append(runs, [given |-> given, fs_before |-> fs, lines |-> r.lines,
                                fs |-> r.fs, staged |-> r.staged, log |-> r.log,
                                err |-> r.err])

\* tex.py:28
HandleImages ==
    /\ pc = "images"
    /\ ImagesCall(tex_lines)
    /\ UNCHANGED <<raw_string, template_string, front_matter_string, front_matter,
                   tex_in, converter_invoked, output>>

\* handle_images is called once more on the line sequence of its first call (a
\* second run of the conversion of the same document), over the same ./tmp
HandleImagesAgain ==
    /\ pc \in {"write", "failed"}
    /\ Len(runs) >= 1
    /\ Len(runs) < MaxRuns
    /\ ImagesCall(runs[1].given)
    /\ UNCHANGED <<raw_string, template_string, front_matter_string, front_matter,
                   tex_in, converter_invoked, output>>

\* tex.py:30
Write ==
    /\ pc = "write"
    /\ output' = [written |-> TRUE, lines |-> tex_lines]
    /\ pc' = "done"
    /\ UNCHANGED <<err, raw_string, template_string, front_matter_string, front_matter,
                   tex_lines, tex_in, prev, ran, fs, log, staged, converter_invoked, runs>>

Next ==
    \/ Extract
    \/ Pandoc
    \/ AddMargins
    \/ AddTitleAndToc
    \/ AddHeaderAndFooter
    \/ HandleImages
    \/ Write

\* yaml_gfm_to_tex
Spec == Init /\ [][Next]_vars

\* _extract_yaml_front_matter alone
SpecExtract == Init /\ [][Extract]_vars

NextPatch ==
    \/ AddMargins
    \/ AddTitleAndToc
    \/ AddHeaderAndFooter
    \/ HandleImages

\* The four patch passes on any line sequence
SpecPatch == InitPatch /\ [][NextPatch]_vars

NextImages ==
    \/ HandleImages
    \/ HandleImagesAgain

\* handle_images on any line sequence, run up to MaxRuns times
SpecImages == InitImages /\ [][NextImages]_vars

(***************************************************************************)
(* The claims.                                                             *)
(***************************************************************************)
Count(l, x) == Cardinality({i \in 1..Len(l) : l[i] = x})

\* `after` is `before` with `block` inserted behind its first i lines
InsertedBehind(before, after, i, block) ==
    after = SubSeq(before, 1, i) \o block \o SubSeq(before, i + 1, Len(before))

RECURSIVE IsSubsequence(_, _)
IsSubsequence(a, b) ==
    IF a = <<>> THEN TRUE
    ELSE IF b = <<>> THEN FALSE
    ELSE IF Head(a) = Head(b) THEN IsSubsequence(Tail(a), Tail(b))
    ELSE IsSubsequence(a, Tail(b))

\* The number of non-overlapping occurrences of pat in s
RECURSIVE Occurrences(_, _)
Occurrences(s, pat) ==
    IF Len(s) < Len(pat) THEN 0
    ELSE IF StartsWith(s, pat) THEN 1 + Occurrences(SubSeq(s, Len(pat) + 1, Len(s)), pat)
    ELSE Occurrences(Tail(s), pat)

LastPassIs(name) == ran # <<>> /\ Last(ran) = name

LinesInsertedBy(name) ==
    IF name = "margins" THEN 1
    ELSE IF name = "title" THEN Len(TitleBeforeBlock(front_matter)) + Len(TitleAfterBlock)
    ELSE Len(HeaderBeforeBlock(front_matter)) + Len(HeaderAfterBlock)

\* C1: a patch pass that raises leaves the line sequence as it was given; a
\* pass that returns has inserted its whole block.
C1_AllOrNothing ==
    (ran # <<>> /\ Last(ran) \in {"margins", "title", "header"}) =>
        IF err # "none" THEN tex_lines = prev
        ELSE Len(tex_lines) = Len(prev) + LinesInsertedBy(Last(ran))

\* C2: when an image line's source file is missing, handle_images prints a
\* diagnostic and returns normally, having processed every image line.
C2_MissingImageNonFatal ==
    (Len(runs) >= 1 /\ \E p \in Referenced(runs[1].given) : ~IsFile(runs[1].fs_before, p)) =>
        /\ runs[1].err = "none"
        /\ runs[1].log # <<>>
        /\ \A i \in 1..Len(runs[1].lines) : ~ImgMatch(runs[1].lines[i])

\* The lines a pass put before and after the single \begin{document}
AddedBeforeAnchor == ListIndex(tex_lines, BeginDocument) - ListIndex(prev, BeginDocument)

AddedAfterAnchor ==
    (Len(tex_lines) - ListIndex(tex_lines, BeginDocument))
    - (Len(prev) - ListIndex(prev, BeginDocument))

FullRun == ran = <<"margins", "title", "header", "images">> /\ err = "none"

\* C3, as claimed: Title & ToC and Header & Footer each insert 4 lines before
\* and 4 lines after the single \begin{document}, and a full run makes the
\* document 9 lines longer.
C3_FourAndFourGrowthNine ==
    /\ ((LastPassIs("title") \/ LastPassIs("header")) /\ err = "none"
        /\ Count(prev, BeginDocument) = 1) =>
           (AddedBeforeAnchor = 4 /\ AddedAfterAnchor = 4)
    /\ FullRun => Len(tex_lines) = Len(tex_in) + 9

\* C3, amended: Title & ToC inserts 4 lines before and 4 lines after the single
\* \begin{document}, Header & Footer inserts 6 lines before and 1 line after
\* it, and a full run makes the document 1 + 8 + 7 = 16 lines longer.
C3_InsertedLineCounts ==
    /\ (LastPassIs("title") /\ err = "none" /\ Count(prev, BeginDocument) = 1) =>
           (AddedBeforeAnchor = 4 /\ AddedAfterAnchor = 4)
    /\ (LastPassIs("header") /\ err = "none" /\ Count(prev, BeginDocument) = 1) =>
           (AddedBeforeAnchor = 6 /\ AddedAfterAnchor = 1)
    /\ FullRun => Len(tex_lines) = Len(tex_in) + 16

C3_Witness ==
    /\ FullRun
    /\ Count(tex_in, BeginDocument) = 1
    /\ Len(tex_lines) = Len(tex_in) + 16

TitleThenHeader ==
    /\ Len(ran) >= 2
    /\ ran[Len(ran) - 1] = "title"
    /\ Last(ran) = "header"
    /\ err = "none"
    /\ Count(tex_in, BeginDocument) = 1

\* C4: after Title & ToC and then Header & Footer, the lines after the anchor
\* are Header & Footer's \thispagestyle{empty} and then \maketitle,
\* \thispagestyle{empty}, \tableofcontents, \pagebreak; before the anchor come
\* the title block, in order, and then Header & Footer's block.
C4_LayoutAroundAnchor ==
    TitleThenHeader =>
        LET k == ListIndex(tex_lines, BeginDocument) + 1
            T == front_matter.title.s
            I == front_matter.id.s
            R == PyStr(front_matter.revision)
            M == front_matter.manufacturer_name.s
        IN /\ k > 10
           /\ SubSeq(tex_lines, k + 1, k + 5) =
                << <<"\\thispagestyle{empty}">>, <<"\\maketitle">>,
                   <<"\\thispagestyle{empty}">>, <<"\\tableofcontents">>,
                   <<"\\pagebreak">> >>
           /\ SubSeq(tex_lines, k - 10, k - 7) =
                << <<"\\title{">> \o T \o <<" \\\\ ">>,
                   <<"\\large ">> \o I \o <<", Rev. ">> \o R \o <<"}">>,
                   <<"\\date{\\today}">>,
                   <<"\\author{">> \o M \o <<"}">> >>
           /\ SubSeq(tex_lines, k - 6, k - 1) =
                << <<"\\usepackage{fancyhdr}">>, <<"\\usepackage{lastpage}">>,
                   <<"\\pagestyle{fancy}">>,
                   <<"\\lhead{">> \o T \o <<"}">>,
                   <<"\\rhead{">> \o I \o <<", Rev. ">> \o R \o <<"}">>,
                   <<"\\cfoot{Page \\thepage\\ of \\pageref{LastPage}}">> >>

C4_Witness ==
    /\ TitleThenHeader
    /\ front_matter = FullFrontMatter
    /\ Len(tex_in) > 1

\* The starts of the lines of s that consist of exactly "---"
DelimiterLines(s) ==
    {i \in 1..Len(s) : (i = 1 \/ s[i - 1] = "\n") /\ StartsWith(SubSeq(s, i, Len(s)), Delimiter)}

\* C5: for an input whose first line is a "---" line and that has a second
\* "---" line, when _extract_yaml_front_matter returns, the text it handed to
\* the YAML parser is the text between the two lines and the body it returns
\* is everything after the second.
C5_DelimiterLinesOnly ==
    (pc = "pandoc" /\ 1 \in DelimiterLines(raw_string)
     /\ Cardinality(DelimiterLines(raw_string)) >= 2) =>
        LET second == Min(DelimiterLines(raw_string) \ {1})
        IN /\ front_matter_string = SubSeq(raw_string, 5, second - 1)
           /\ template_string = SubSeq(raw_string, second + 4, Len(raw_string))

AtMostOneDelimiter == Occurrences(raw_string, <<"-", "-", "-">>) <= 1

HasOneLineForm(l) == \E i \in 1..Len(l) : l[i] = DocumentClassOneLine

TwoLineFormAt(l, i) ==
    i + 1 <= Len(l) /\ l[i] = DocumentClassOpen /\ l[i + 1] = DocumentClassClose

HasTwoLineForm(l) == \E i \in 1..Len(l) : TwoLineFormAt(l, i)

\* C7, as claimed: with the one-line declaration in the document the directive
\* is inserted on the very next line; with the two-line form in the document it
\* is inserted right after the "]{article}" line; with neither the pass raises.
C7_EitherFormAnywhere ==
    LastPassIs("margins") =>
        /\ HasOneLineForm(prev) =>
             /\ err = "none"
             /\ \E i \in 1..Len(prev) :
                  prev[i] = DocumentClassOneLine
                  /\ InsertedBehind(prev, tex_lines, i, <<GeometryLine>>)
        /\ HasTwoLineForm(prev) =>
             /\ err = "none"
             /\ \E i \in 1..Len(prev) :
                  TwoLineFormAt(prev, i)
                  /\ InsertedBehind(prev, tex_lines, i + 1, <<GeometryLine>>)
        /\ (~HasOneLineForm(prev) /\ ~HasTwoLineForm(prev)) =>
             (err # "none" /\ tex_lines = prev)

\* The first "\documentclass[" line of l opens the two-line form
FirstOpenIsTwoLineForm(l) ==
    /\ \E i \in 1..Len(l) : l[i] = DocumentClassOpen
    /\ TwoLineFormAt(l, ListIndex(l, DocumentClassOpen) + 1)

\* C7, amended: the two-line form gets the directive right after its
\* "]{article}" line when the document has no one-line declaration and its
\* first "\documentclass[" line is the one that "]{article}" follows; the rest
\* as claimed.
C7_MarginsPass ==
    LastPassIs("margins") =>
        /\ HasOneLineForm(prev) =>
             /\ err = "none"
             /\ \E i \in 1..Len(prev) :
                  prev[i] = DocumentClassOneLine
                  /\ InsertedBehind(prev, tex_lines, i, <<GeometryLine>>)
        /\ (~HasOneLineForm(prev) /\ FirstOpenIsTwoLineForm(prev)) =>
             /\ err = "none"
             /\ InsertedBehind(prev, tex_lines, ListIndex(prev, DocumentClassOpen) + 2,
                               <<GeometryLine>>)
        /\ (~HasOneLineForm(prev) /\ ~HasTwoLineForm(prev)) =>
             (err # "none" /\ tex_lines = prev)

C7_Witness ==
    /\ LastPassIs("margins")
    /\ ~HasOneLineForm(prev)
    /\ FirstOpenIsTwoLineForm(prev)
    /\ ListIndex(prev, DocumentClassOpen) > 0
    /\ err = "none"

\* The staged path the claim gives for an image path
ClaimedStagedPath(path) ==
    IF EndsWith(path, <<".", "svg">>)
    THEN TmpRoot \o SubSeq(path, 1, Len(path) - 1) \o <<"pdf">>
    ELSE TmpRoot \o path

\* C8: every image line whose source exists is rewritten to its staged path
\* under ./tmp/ (the rasterizer called for .svg, with the extension .pdf; the
\* file copied otherwise, the extension kept), every other line is unchanged,
\* and the number of lines is the same.
C8_EveryExistingImageStaged ==
    Len(runs) >= 1 =>
        LET r == runs[1]
        IN /\ Len(r.lines) = Len(r.given)
           /\ \A i \in 1..Len(r.given) :
                IF ~ImgMatch(r.given[i]) THEN r.lines[i] = r.given[i]
                ELSE IsFile(r.fs_before, ImgPath(r.given[i])) =>
                       LET path == ImgPath(r.given[i])
                       IN /\ r.lines[i] = RewrittenLine(ClaimedStagedPath(path))
                          /\ \E c \in 1..Len(r.staged) :
                               /\ r.staged[c].src = path
                               /\ r.staged[c].dst = ClaimedStagedPath(path)
                               /\ r.staged[c].op =
                                    IF EndsWith(path, <<".", "svg">>)
                                    THEN "svg_to_pdf" ELSE "copyfile"

UnderTmp(p) == StartsWith(FileKey(p), <<"tmp", "/">>)

\* The staging directory: the files under ./tmp, with their contents
Staging(f) == [q \in {k \in DOMAIN f.files : UnderTmp(k)} |-> f.files[q]]

AllSourcesPresent == \A p \in Referenced(runs[1].given) : IsFile(runs[1].fs_before, p)

\* Every run after the first raised nothing and left what the first left
SecondRunSame ==
    \A k \in 2..Len(runs) :
        /\ runs[k].err = "none"
        /\ Staging(runs[k].fs) = Staging(runs[1].fs)
        /\ runs[k].lines = runs[1].lines

\* C9, as claimed: with all source images present, a second run of
\* handle_images over the same document and ./tmp raises nothing and leaves the
\* same staged files and the same rewritten document as the first.
C9_SecondRunSame ==
    (Len(runs) >= 2 /\ AllSourcesPresent) => SecondRunSame

\* No source image the document refers to is a file the first run wrote
NoSourceIsStaged ==
    \A p \in Referenced(runs[1].given) :
        \A c \in 1..Len(runs[1].staged) : FileKey(runs[1].staged[c].dst) # FileKey(p)

\* C9, amended: the same, provided no source image the document refers to is
\* itself one of the files the run stages (as a source under ./tmp/ can be).
C9_SecondRunSameSourcesApart ==
    (Len(runs) >= 2 /\ AllSourcesPresent /\ NoSourceIsStaged) => SecondRunSame

C9_Witness ==
    /\ Len(runs) = 2
    /\ AllSourcesPresent
    /\ NoSourceIsStaged
    /\ \E c \in 1..Len(runs[2].staged) : runs[2].staged[c].op = "svg_to_pdf"
    /\ \E c \in 1..Len(runs[2].staged) : runs[2].staged[c].op = "copyfile"

HasRequiredKeys(fm) == \A k \in Keys : fm[k].t # "absent"

ThreePassesRan ==
    /\ Len(ran) >= 3
    /\ SubSeq(ran, 1, 3) = <<"margins", "title", "header">>
    /\ (Len(ran) = 3 => err = "none")
    /\ Count(tex_in, BeginDocument) = 1
    /\ HasRequiredKeys(front_matter)

\* C10: after Margins, Title & ToC and Header & Footer, in this order, on a
\* document with exactly one \begin{document}, the lines of the original
\* document are all there, in their order, and \begin{document} still occurs
\* exactly once.
C10_PassesOnlyInsert ==
    ThreePassesRan =>
        /\ IsSubsequence(tex_in, tex_lines)
        /\ Count(tex_lines, BeginDocument) = 1

C10_Witness ==
    /\ ThreePassesRan
    /\ Len(tex_lines) = Len(tex_in) + 16
    /\ HasTwoLineForm(tex_in)

====
